---------------------------- MODULE Spec2Model ----------------------------
(***************************************************************************)
(* A model of babel/localedata.py: the locale-data loader (_LocaleData),   *)
(* merge, Alias.resolve and the alias-resolving LocaleDataDict.            *)
(*                                                                         *)
(* Python objects with identity (dict instances) live in a heap: a         *)
(* sequence of dict contents, a reference being an index.  Immutable       *)
(* values (scalars, None, Alias, the (alias, others) tuple and a           *)
(* LocaleDataDict, whose two fields are never reassigned) are values.      *)
(***************************************************************************)
EXTENDS Naturals, Sequences, FiniteSets, TLC

(***************************************************************************)
(* Bounds of the model.                                                    *)
(***************************************************************************)
\* a load that misses the cache is not started once the heap holds more than
\* MaxHeap dicts
MaxHeap == 8

(***************************************************************************)
(* Python values.                                                          *)
(***************************************************************************)
NoneV == [t |-> "none"]
Scalar(v) == [t |-> "s", v |-> v]
\* Alias(keys): self.keys = tuple(keys)
Alias(keys) == [t |-> "a", keys |-> keys]
\* a reference to a dict instance of the heap
Ref(r) == [t |-> "r", ref |-> r]
\* the tuple (alias, others) that merge builds
Pair(keys, r) == [t |-> "p", keys |-> keys, ref |-> r]
\* LocaleDataDict(data, base): self._data = data, self.base = base
LocaleDataDict(data, base) == [t |-> "v", ref |-> data, base |-> base]
\* a nested dict of a stored (pickled) dataset, not yet an object
Nested(f) == [t |-> "d", d |-> f]

PyStr(s) == [t |-> "str", s |-> s]
PyInt(n) == [t |-> "int", n |-> n]

\* dict.get(key): the value, or None
Get(d, key) == IF key \in DOMAIN d THEN d[key] ELSE NoneV

\* d[key] = val on dict contents
Put(d, key, val) == [k \in DOMAIN d \cup {key} |-> IF k = key THEN val ELSE d[k]]

(***************************************************************************)
(* Locale identifiers are strings: sequences of characters.                *)
(***************************************************************************)
root == <<"r", "o", "o", "t">>
en == <<"e", "n">>
en_US == <<"e", "n", "_", "U", "S">>
de == <<"d", "e">>

\* str.lower(), one character
LowerChar(c) ==
    CASE c = "E" -> "e" [] c = "N" -> "n" [] c = "U" -> "u" [] c = "S" -> "s"
      [] c = "D" -> "d" [] c = "R" -> "r" [] c = "O" -> "o" [] c = "T" -> "t"
      [] OTHER -> c

\* str.upper(), one character (used to spell inputs)
UpperChar(c) ==
    CASE c = "e" -> "E" [] c = "n" -> "N" [] c = "u" -> "U" [] c = "s" -> "S"
      [] c = "d" -> "D" [] c = "r" -> "R" [] c = "o" -> "O" [] c = "t" -> "T"
      [] OTHER -> c

Lower(s) == [i \in 1..Len(s) |-> LowerChar(s[i])]
Upper(s) == [i \in 1..Len(s) |-> UpperChar(s[i])]

IsSpace(c) == c = " "

RECURSIVE LStrip(_)
LStrip(s) == IF s # <<>> /\ IsSpace(Head(s)) THEN LStrip(Tail(s)) ELSE s

RECURSIVE RStrip(_)
RStrip(s) ==
    IF s # <<>> /\ IsSpace(s[Len(s)]) THEN RStrip(SubSeq(s, 1, Len(s) - 1)) ELSE s

\* a strip that forgets the trailing whitespace
StripLeftOnly(s) == LStrip(s)

\* str.strip()
Strip(s) == RStrip(LStrip(s))

\* name.split('_'): the parts between underscores
RECURSIVE Split(_)
Split(s) ==
    IF \E i \in 1..Len(s) : s[i] = "_"
    THEN LET i == CHOOSE i \in 1..Len(s) :
                      s[i] = "_" /\ \A j \in 1..(i - 1) : s[j] # "_"
         IN  <<SubSeq(s, 1, i - 1)>> \o Split(SubSeq(s, i + 1, Len(s)))
    ELSE <<s>>

\* '_'.join(parts)
RECURSIVE Join(_)
Join(parts) ==
    IF Len(parts) = 0 THEN <<>>
    ELSE IF Len(parts) = 1 THEN parts[1]
    ELSE parts[1] \o <<"_">> \o Join(Tail(parts))


(***************************************************************************)
(* The heap: a sequence of dict contents.  Operations on it return the new *)
(* heap with their value and the exception they raise ("" for none).       *)
(***************************************************************************)
Ok(h, val) == [h |-> h, val |-> val, err |-> ""]
Raise(h, e) == [h |-> h, val |-> NoneV, err |-> e]

\* a new dict instance with the contents d
NewDict(h, d) == [h |-> Append(h, d), ref |-> Len(h) + 1]

\* dict.copy(): a new instance with the same items (shallow)
DictCopy(h, r) == NewDict(h, h[r])

\* a local variable: F, the code that follows, with its parameter bound to v
Bind(v, F(_)) == F(v)

\* pickle.load(fileobj): the stored dataset f as new dict instances
RECURSIVE Unpickle(_, _)
RECURSIVE UnpickleItems(_, _, _, _)
UnpickleItems(h, r, f, todo) ==
    IF todo = {} THEN h
    ELSE Bind(CHOOSE k \in todo : TRUE, LAMBDA key :
         IF f[key].t = "d"
         THEN Bind(Unpickle(h, f[key].d), LAMBDA sub :
                  UnpickleItems([sub.h EXCEPT ![r] = Put(@, key, Ref(sub.ref))],
                                r, f, todo \ {key}))
         ELSE UnpickleItems([h EXCEPT ![r] = Put(@, key, f[key])], r, f, todo \ {key}))

Unpickle(h, f) ==
    Bind(NewDict(h, <<>>), LAMBDA n :
         [h |-> UnpickleItems(n.h, n.ref, f, DOMAIN f), ref |-> n.ref])

(***************************************************************************)
(* merge, Alias.resolve and LocaleDataDict.__getitem__ call each other.    *)
(* The first argument of merge is a mapping: a dict (Ref) or, when a       *)
(* LocaleDataDict was stored in the target, that LocaleDataDict.           *)
(***************************************************************************)
RECURSIVE merge(_, _, _)
RECURSIVE merge_items(_, _, _, _)
RECURSIVE getitem(_, _, _)
RECURSIVE resolve(_, _, _)
RECURSIVE walk(_, _, _)

\* dict1[key] = val1 (dict.__setitem__ or LocaleDataDict.__setitem__)
setitem(h, dict1, key, val) == [h EXCEPT ![dict1.ref] = Put(@, key, val)]

\* dict1.get(key): dict.get, or Mapping.get, which reads self[key] and
\* answers None on KeyError
mapping_get(h, dict1, key) ==
    IF dict1.t = "r" THEN Ok(h, Get(h[dict1.ref], key))
    ELSE Bind(getitem(h, dict1, key), LAMBDA g :
              IF g.err = "KeyError" THEN Ok(g.h, NoneV) ELSE g)

\* val1.copy() for a dict or a LocaleDataDict (LocaleDataDict.copy keeps base)
mapping_copy(h, val1) ==
    Bind(DictCopy(h, val1.ref), LAMBDA c :
         [h |-> c.h,
          val |-> IF val1.t = "v" THEN LocaleDataDict(c.ref, val1.base)
                  ELSE Ref(c.ref)])

\* the recursive call with its arguments swapped: merge(val2, val1)
MergeIntoSwapped(h, val1, val2) == merge(h, Ref(val2), val1.ref)

\* the recursive call merge(val1, val2) of a nested dict
merge_into(h, val1, val2) == merge(h, val1, val2)

\* a nested dict of dict2 taken as it is, like a scalar (dict.update)
MergeNestedOverwrite(h, val1, val2) == Ok(h, Ref(val2))

\* the mapping the nested dict is merged into: others.copy() of a tuple,
\* {}.copy() for None (val1 = {} and then val1 = val1.copy(): one new empty
\* dict is kept), val1.copy() of a dict or a LocaleDataDict
nested_copy(h, val1) ==
    IF val1.t = "p"
    THEN Bind(DictCopy(h, val1.ref), LAMBDA others :
              [h |-> others.h, val |-> Ref(others.ref)])
    ELSE IF val1.t = "none"
    THEN Bind(NewDict(h, <<>>), LAMBDA c : [h |-> c.h, val |-> Ref(c.ref)])
    ELSE mapping_copy(h, val1)

\* the body of "if isinstance(val2, dict)": the new val1 for a nested dict val2
merge_nested(h, val1, val2) ==
    IF val1.t = "a" THEN Ok(h, Pair(val1.keys, val2))
    \* a scalar has no copy()
    ELSE IF val1.t \notin {"p", "none", "r", "v"} THEN Raise(h, "AttributeError")
    ELSE Bind(nested_copy(h, val1), LAMBDA c :
         Bind(merge_into(c.h, c.val, val2), LAMBDA m :
              [h |-> m.h,
               val |-> IF val1.t = "p" THEN Pair(val1.keys, c.val.ref) ELSE c.val,
               err |-> m.err]))

\* "dict1[key] = val1" for a nested dict val2, unless the merge raised
merge_store(dict1, key, n) ==
    IF n.err # "" THEN n ELSE Ok(setitem(n.h, dict1, key, n.val), NoneV)

\* one round of "for key, val2 in dict2.items()"
merge_item(h, dict1, key, val2) ==
    IF val2.t = "none" THEN Ok(h, NoneV)
    ELSE Bind(mapping_get(h, dict1, key), LAMBDA g :
         IF g.err # "" THEN g
         ELSE IF val2.t = "r"
         THEN merge_store(dict1, key, merge_nested(g.h, g.val, val2.ref))
         ELSE Ok(setitem(g.h, dict1, key, val2), NoneV))

merge_items(h, dict1, dict2, todo) ==
    IF todo = {} THEN Ok(h, NoneV)
    ELSE Bind(CHOOSE k \in todo : TRUE, LAMBDA key :
         Bind(merge_item(h, dict1, key, Get(h[dict2], key)), LAMBDA r :
              IF r.err # "" THEN r
              ELSE merge_items(r.h, dict1, dict2, todo \ {key})))

\* merge(dict1, dict2), dict2 a dict instance
merge(h, dict1, dict2) == merge_items(h, dict1, dict2, DOMAIN h[dict2])

\* data[key] inside Alias.resolve: a dict, a LocaleDataDict, or no mapping
index(h, data, key) ==
    IF data.t = "r"
    THEN IF key \in DOMAIN h[data.ref] THEN Ok(h, h[data.ref][key])
         ELSE Raise(h, "KeyError")
    ELSE IF data.t = "v" THEN getitem(h, data, key)
    ELSE Raise(h, "TypeError")

\* for key in self.keys: data = data[key]
walk(h, data, keys) ==
    IF keys = <<>> THEN Ok(h, data)
    ELSE Bind(index(h, data, Head(keys)), LAMBDA s :
              IF s.err # "" THEN s ELSE walk(s.h, s.val, Tail(keys)))

\* a resolve that does not follow the Alias or the tuple the walk ends at
ResolveOnce(h, keys, base) == walk(h, Ref(base), keys)

\* Alias(keys).resolve(base)
resolve(h, keys, base) ==
    Bind(walk(h, Ref(base), keys), LAMBDA w :
         IF w.err # "" THEN w
         ELSE IF w.val.t \in {"a", "p"} THEN resolve(w.h, w.val.keys, base)
         ELSE w)

\* others merged into the resolved value itself, without the copy
MergePartialInPlace(r, others) ==
    IF r.err # "" THEN r
    ELSE IF r.val.t \notin {"r", "v"} THEN Raise(r.h, "AttributeError")
    ELSE Bind(merge(r.h, r.val, others), LAMBDA m :
              [h |-> m.h, val |-> r.val, err |-> m.err])

\* "val = alias.resolve(self.base).copy(); merge(val, others)" on the
\* resolved value r
merge_partial(r, others) ==
    IF r.err # "" THEN r
    ELSE IF r.val.t \notin {"r", "v"} THEN Raise(r.h, "AttributeError")
    ELSE Bind(mapping_copy(r.h, r.val), LAMBDA c :
         Bind(merge(c.h, c.val, others), LAMBDA m :
              [h |-> m.h, val |-> c.val, err |-> m.err]))

\* "if isinstance(val, Alias)": the Alias resolved against base
getitem_alias(h, orig, base) ==
    IF orig.t = "a" THEN resolve(h, orig.keys, base) ELSE Ok(h, orig)

\* "if isinstance(val, tuple)": the alias target, copied, with others merged
getitem_tuple(s1, base) ==
    IF s1.err = "" /\ s1.val.t = "p"
    THEN merge_partial(resolve(s1.h, s1.val.keys, base), s1.val.ref)
    ELSE s1

\* the value wrapped and returned, without "self._data[key] = val"
GetitemNoStore(view, key, orig, s2) ==
    IF s2.err # "" THEN s2
    ELSE Ok(s2.h, IF s2.val.t = "r" THEN LocaleDataDict(s2.val.ref, view.base)
                  ELSE s2.val)

\* "if type(val) is dict: val = LocaleDataDict(val, base=self.base)" and
\* "if val is not orig: self._data[key] = val": an Alias, a tuple or a dict
\* was replaced by another object
getitem_store(view, key, orig, s2) ==
    IF s2.err # "" THEN s2
    ELSE Bind(IF s2.val.t = "r" THEN LocaleDataDict(s2.val.ref, view.base)
              ELSE s2.val, LAMBDA val :
              IF orig.t \in {"a", "p", "r"}
              THEN Ok(setitem(s2.h, view, key, val), val)
              ELSE Ok(s2.h, val))

\* LocaleDataDict.__getitem__(key), self = view
getitem(h, view, key) ==
    IF key \notin DOMAIN h[view.ref] THEN Raise(h, "KeyError")
    ELSE getitem_store(view, key, h[view.ref][key],
             getitem_tuple(getitem_alias(h, h[view.ref][key], view.base),
                           view.base))


(***************************************************************************)
(* _LocaleData.  Its operations take and return the object's state         *)
(*   st = [store, cache, heap, ids, nmap, fetched]                         *)
(* where store is the locale-data directory and the parent_exceptions      *)
(* table (both outside this file), ids and nmap are the memoized           *)
(* _locale_identifiers and _locale_identifiers_normalization_map           *)
(* ([built |-> FALSE] while None) and fetched lists the files opened.      *)
(***************************************************************************)
Unbuilt == [built |-> FALSE, v |-> {}]
UnbuiltMap == [built |-> FALSE, v |-> <<>>]
Built(v) == [built |-> TRUE, v |-> v]

\* os.path.join(_dirname, '%s.dat' % name) names an existing file
FileExists(store, name) ==
    name.t = "str" /\ [stem |-> name.s, ext |-> ".dat"] \in store.dir

\* locale_identifiers(): the stems of the .dat files other than root
locale_identifiers(st) ==
    IF st.ids.built THEN [st |-> st, val |-> st.ids.v]
    ELSE LET found == {e.stem : e \in {f \in st.store.dir :
                                          f.ext = ".dat" /\ f.stem # root}}
         IN  [st |-> [st EXCEPT !.ids = Built(found)], val |-> found]

\* locale_identifiers_normalization_map(): {s.lower(): s for s in ids}
locale_identifiers_normalization_map(st) ==
    IF st.nmap.built THEN [st |-> st, val |-> st.nmap.v]
    ELSE Bind(locale_identifiers(st), LAMBDA l :
         Bind([low \in {Lower(s) : s \in l.val} |->
                   CHOOSE s \in l.val : Lower(s) = low], LAMBDA m :
              [st |-> [l.st EXCEPT !.nmap = Built(m)], val |-> m]))

\* "not name"
Falsy(name) ==
    \/ name.t = "none"
    \/ name.t = "str" /\ name.s = <<>>
    \/ name.t = "int" /\ name.n = 0

\* normalize_locale(name)
normalize_locale(st, name) ==
    IF Falsy(name) \/ name.t # "str" THEN [st |-> st, val |-> NoneV]
    ELSE Bind(Lower(Strip(name.s)), LAMBDA key :
         Bind(locale_identifiers_normalization_map(st), LAMBDA m :
              [st |-> m.st,
               val |-> IF key \in DOMAIN m.val THEN PyStr(m.val[key]) ELSE NoneV]))

\* name in self._cache
InCache(st, name) == name.t = "str" /\ name.s \in DOMAIN st.cache

\* an exists that does not look into the cache
ExistsTableOnly(st, name) ==
    IF Falsy(name) \/ name.t # "str" THEN [st |-> st, val |-> FALSE]
    ELSE Bind(normalize_locale(st, name), LAMBDA n :
              [st |-> n.st, val |-> n.val.t # "none"])

\* exists(name)
exists(st, name) ==
    IF Falsy(name) \/ name.t # "str" THEN [st |-> st, val |-> FALSE]
    ELSE IF InCache(st, name) THEN [st |-> st, val |-> TRUE]
    ELSE Bind(normalize_locale(st, name), LAMBDA n :
              [st |-> n.st, val |-> n.val.t # "none"])

\* an open that answers an empty dataset for a missing file
OpenFileOrEmpty(st, name) ==
    IF FileExists(st.store, name)
    THEN [ok |-> TRUE, data |-> st.store.data[name.s]]
    ELSE [ok |-> name.t = "str", data |-> <<>>]

\* with open(filename, 'rb'): the stored dataset, or IOError
open_file(st, name) ==
    IF FileExists(st.store, name)
    THEN [ok |-> TRUE, data |-> st.store.data[name.s]]
    ELSE [ok |-> FALSE, data |-> <<>>]

\* the parent of name: the parent_exceptions entry, or name without its last
\* part, or 'root' (name is None when normalize_locale did not know it)
parent_of(st, name) ==
    IF name.t = "str" /\ name.s \in DOMAIN st.store.parent_exceptions
    THEN [val |-> PyStr(st.store.parent_exceptions[name.s]), err |-> ""]
    ELSE IF name.t # "str" THEN [val |-> NoneV, err |-> "AttributeError"]
    ELSE Bind(Split(name.s), LAMBDA parts :
              [val |-> IF Len(parts) = 1 THEN PyStr(root)
                       ELSE PyStr(Join(SubSeq(parts, 1, Len(parts) - 1))),
               err |-> ""])

\* self._cache.get(name) and "if not data": a cached dict that is not empty
cache_hit(st, name) == InCache(st, name) /\ st.heap[st.cache[name.s]] # <<>>

RECURSIVE load(_, _, _)

\* data = self.load(parent).copy(), p being what load(parent) answered
parent_copy(p) ==
    IF p.err # "" THEN p
    ELSE Bind(DictCopy(p.st.heap, p.val.ref), LAMBDA c :
              [st |-> [p.st EXCEPT !.heap = c.h], val |-> Ref(c.ref), err |-> ""])

\* "Load inherited data": None for the dict that pickle.load replaces, or a
\* copy of the parent's dataset
load_inherited(st, name, merge_inherited) ==
    IF name = PyStr(root) \/ ~merge_inherited
    THEN [st |-> st, val |-> NoneV, err |-> ""]
    ELSE Bind(parent_of(st, name), LAMBDA parent :
              IF parent.err # ""
              THEN [st |-> st, val |-> NoneV, err |-> parent.err]
              ELSE parent_copy(load(st, parent.val, TRUE)))

\* self._cache[name] = data; return data
cache_store(st, name, data) ==
    [st |-> [st EXCEPT !.cache = Put(@, name.s, data.ref)], val |-> data, err |-> ""]

\* name = 'root' if name == 'root' else self.normalize_locale(name)
canonical_name(st, name) ==
    IF name = PyStr(root) THEN [st |-> st, val |-> name]
    ELSE normalize_locale(st, name)

\* merge(data, pickle.load(fileobj)) or data = pickle.load(fileobj), raw
\* being the unpickled dataset, and the store into the cache
load_merge(st, name, merge_inherited, data, raw) ==
    IF name # PyStr(root) /\ merge_inherited
    THEN Bind(merge(st.heap, data, raw), LAMBDA m :
              IF m.err # ""
              THEN [st |-> [st EXCEPT !.heap = m.h], val |-> NoneV, err |-> m.err]
              ELSE cache_store([st EXCEPT !.heap = m.h], name, data))
    ELSE cache_store(st, name, Ref(raw))

\* "with open(filename, 'rb') as fileobj: ..." with data the inherited dataset
load_file(st, name, merge_inherited, data) ==
    Bind(open_file(st, name), LAMBDA f :
         IF ~f.ok THEN [st |-> st, val |-> NoneV, err |-> "IOError"]
         ELSE Bind(Unpickle(st.heap, f.data), LAMBDA raw :
                   load_merge([st EXCEPT !.heap = raw.h,
                                         !.fetched = Append(@, name.s)],
                              name, merge_inherited, data, raw.ref)))

\* the body of "if not data"
load_miss(st, name, merge_inherited) ==
    Bind(load_inherited(st, name, merge_inherited), LAMBDA b :
         IF b.err # "" THEN b
         ELSE load_file(b.st, name, merge_inherited, b.val))

\* load(name, merge_inherited)
load(st0, name0, merge_inherited) ==
    Bind(canonical_name(st0, name0), LAMBDA nz :
         IF cache_hit(nz.st, nz.val)
         THEN [st |-> nz.st, val |-> Ref(nz.st.cache[nz.val.s]), err |-> ""]
         ELSE load_miss(nz.st, nz.val, merge_inherited))

(***************************************************************************)
(* The locale-data directories and parent_exceptions tables of the model.  *)
(***************************************************************************)
Dat(stem) == [stem |-> stem, ext |-> ".dat"]
Readme == [stem |-> <<"d", "e">>, ext |-> ".txt"]

RootData ==
    ("a" :> Scalar("r"))
    @@ ("b" :> Nested(("x" :> Scalar("rx")) @@ ("y" :> Scalar("ry"))))
    @@ ("c" :> Alias(<<"b">>))
EnData ==
    ("a" :> Scalar("e"))
    @@ ("b" :> Nested("x" :> Scalar("ex")))
    @@ ("c" :> Nested("y" :> Scalar("ey")))
EnNoneData ==
    ("a" :> NoneV)
    @@ ("b" :> Nested(("x" :> NoneV) @@ ("y" :> Scalar("ey"))))
EnUSData ==
    ("b" :> Nested("y" :> Scalar("uy")))
    @@ ("c" :> Nested("x" :> Scalar("ux")))
EmptyData == <<>>

NoExceptions == <<>>

Store(dir, data, pe) == [dir |-> dir, data |-> data, parent_exceptions |-> pe]

Stores ==
    { \* the full chain en_US -> en -> root
      Store({Dat(root), Dat(en), Dat(en_US), Readme},
            (root :> RootData) @@ (en :> EnData) @@ (en_US :> EnUSData),
            NoExceptions),
      \* en holds absence markers
      Store({Dat(root), Dat(en), Dat(en_US)},
            (root :> RootData) @@ (en :> EnNoneData) @@ (en_US :> EnUSData),
            NoExceptions),
      \* empty datasets
      Store({Dat(root), Dat(en)},
            (root :> EmptyData) @@ (en :> EmptyData),
            NoExceptions),
      \* en_US inherits from root by parent_exceptions
      Store({Dat(root), Dat(en), Dat(en_US)},
            (root :> RootData) @@ (en :> EnData) @@ (en_US :> EnUSData),
            (en_US :> root)),
      \* no en.dat: an ancestor of en_US is missing
      Store({Dat(root), Dat(en_US), Readme},
            (root :> RootData) @@ (en_US :> EnUSData),
            NoExceptions),
      \* no root.dat
      Store({Dat(en), Dat(en_US)},
            (en :> EnData) @@ (en_US :> EnUSData),
            NoExceptions) }

\* arguments of load, exists and normalize_locale
Names ==
    { PyStr(root), PyStr(en), PyStr(<<" ", "E", "N", "_", "u", "s", " ">>),
      PyStr(de) }
NoNames == { NoneV, PyStr(<<>>), PyInt(5) }

(***************************************************************************)
(* The state: the _LocaleData instance with the heap and the directory,    *)
(* and the last call with its result.                                      *)
(***************************************************************************)
VARIABLES
    store,        \* the locale-data directory and parent_exceptions
    cache,        \* self._cache: identifier -> dict instance
    heap,         \* the dict instances
    locale_ids,   \* self._locale_identifiers
    norm_map,     \* self._locale_identifiers_normalization_map
    op,           \* the last call: "load", "exists", "normalize_locale", ...
    arg,          \* its name argument
    arg_mi,       \* its merge_inherited argument
    ret,          \* the value it returned
    err,          \* the exception it raised, "" for none
    fetched,      \* the files it opened
    returned,     \* per identifier, the instance the last successful load(name)
                  \* (merge_inherited=True) returned
    prev,         \* that instance for arg's identifier before the last call, or None
    loaded,       \* the identifiers some load has returned the dataset of
    pre,          \* the heap when the last merge or __getitem__ was called
    dict1,        \* the dict1 argument of the last merge
    dict2,        \* the dict2 argument of the last merge
    base,         \* the dataset the LocaleDataDict views are built over
    self,         \* the LocaleDataDict of the last __getitem__
    key,          \* the key of the last __getitem__
    lock,         \* self._cache_lock: the thread that owns it and its hold count
    threads       \* per thread, the stack of the calls it is in

vars == <<store, cache, heap, locale_ids, norm_map, op, arg, arg_mi, ret, err,
          fetched, returned, prev, loaded, pre, dict1, dict2, base, self, key,
          lock, threads>>

\* what the loader's calls leave alone
others == <<pre, dict1, dict2, base, self, key, lock, threads>>

\* threading.RLock(): owned by no thread
Unlocked == [owner |-> 0, count |-> 0]

\* no merge, no LocaleDataDict and no thread yet
NoOthers ==
    /\ lock = Unlocked
    /\ threads = <<>>
    /\ pre = <<>>
    /\ dict1 = 0
    /\ dict2 = 0
    /\ base = 0
    /\ self = NoneV
    /\ key = ""

State ==
    [store |-> store, cache |-> cache, heap |-> heap, ids |-> locale_ids,
     nmap |-> norm_map, fetched |-> <<>>]

\* _LocaleData.__init__
Init ==
    /\ store \in Stores
    /\ cache = <<>>
    /\ heap = <<>>
    /\ locale_ids = Unbuilt
    /\ norm_map = UnbuiltMap
    /\ op = "init"
    /\ arg = NoneV
    /\ arg_mi = TRUE
    /\ ret = NoneV
    /\ err = ""
    /\ fetched = <<>>
    /\ returned = <<>>
    /\ prev = NoneV
    /\ loaded = {}
    /\ NoOthers

\* the object's state after a call
Becomes(st) ==
    /\ cache' = st.cache
    /\ heap' = st.heap
    /\ locale_ids' = st.ids
    /\ norm_map' = st.nmap
    /\ fetched' = st.fetched
    /\ UNCHANGED store

\* the state after load(name, merge_inherited) answered r, id being the
\* identifier it was asked for
Loaded(name, merge_inherited, id, r) ==
    /\ Becomes(r.st)
    /\ op' = "load"
    /\ arg' = name
    /\ arg_mi' = merge_inherited
    /\ ret' = r.val
    /\ err' = r.err
    /\ prev' = IF id.t = "str" THEN Get(returned, id.s) ELSE NoneV
    /\ returned' = IF r.err = "" /\ merge_inherited
                   THEN Put(returned, id.s, r.val) ELSE returned
    /\ loaded' = IF r.err = "" THEN loaded \cup {id.s} ELSE loaded
    /\ UNCHANGED others

Load(name, merge_inherited) ==
    /\ cache_hit(State, canonical_name(State, name).val) \/ Len(heap) <= MaxHeap
    /\ Loaded(name, merge_inherited, canonical_name(State, name).val,
              load(State, name, merge_inherited))

\* the state after a call with the argument name answered val and left the
\* object as r.st
Answered(name, r, val) ==
    /\ Becomes(r.st)
    /\ arg' = name
    /\ ret' = val
    /\ err' = ""
    /\ UNCHANGED <<arg_mi, returned, prev, loaded, others>>

Exists(name) ==
    /\ op' = "exists"
    /\ Bind(exists(State, name), LAMBDA r :
            Answered(name, r, [t |-> "bool", b |-> r.val]))

Normalize(name) ==
    /\ op' = "normalize_locale"
    /\ Bind(normalize_locale(State, name), LAMBDA r : Answered(name, r, r.val))

ListIdentifiers ==
    /\ op' = "locale_identifiers"
    /\ Bind(locale_identifiers(State), LAMBDA r :
            Answered(NoneV, r, [t |-> "list", v |-> r.val]))

Next ==
    \/ \E name \in Names, merge_inherited \in BOOLEAN : Load(name, merge_inherited)
    \/ \E name \in Names \cup NoNames : Exists(name)
    \/ ListIdentifiers

Spec == Init /\ [][Next]_vars


(***************************************************************************)
(* The contents of a dataset at every depth, as a value (what == compares  *)
(* on Python dicts).                                                       *)
(***************************************************************************)
RECURSIVE DeepVal(_, _)
Deep(h, r) == [k \in DOMAIN h[r] |-> DeepVal(h, h[r][k])]
DeepVal(h, v) ==
    CASE v.t = "r" -> Nested(Deep(h, v.ref))
      [] v.t = "p" -> [t |-> "p", keys |-> v.keys, d |-> Deep(h, v.ref)]
      [] v.t = "v" -> [t |-> "v", d |-> Deep(h, v.ref), base |-> v.base]
      [] OTHER -> v


(***************************************************************************)
(* What the claims speak of, stated from the store alone.                  *)
(***************************************************************************)
\* the identifiers the directory holds a dataset for
Stored == {e.stem : e \in {f \in store.dir : f.ext = ".dat"}}

\* the identifier a load argument asks for: 'root', or the listed
\* identifier it spells, in any case and with surrounding spaces
Asked(name) ==
    IF name.t # "str" THEN {}
    ELSE IF name.s = root THEN {root}
    ELSE {id \in Stored \ {root} : Lower(id) = Lower(Strip(name.s))}

\* the position of the last underscore of an identifier, 0 without one
LastUnderscore(id) ==
    IF \E i \in 1..Len(id) : id[i] = "_"
    THEN CHOOSE i \in 1..Len(id) :
             id[i] = "_" /\ \A j \in (i + 1)..Len(id) : id[j] # "_"
    ELSE 0

\* the parent of an identifier: the override table's, or the identifier
\* without its last segment, or 'root'
ParentId(id) ==
    IF id \in DOMAIN store.parent_exceptions THEN store.parent_exceptions[id]
    ELSE IF LastUnderscore(id) = 0 THEN root
    ELSE SubSeq(id, 1, LastUnderscore(id) - 1)

\* the inheritance chain id -> parent -> ... -> root
RECURSIVE Chain(_)
Chain(id) == IF id = root THEN <<root>> ELSE <<id>> \o Chain(ParentId(id))

\* some dataset of the chain of id is not in the store
ChainMissing(id) == \E i \in 1..Len(Chain(id)) : Chain(id)[i] \notin Stored

\* a key defined (with a value other than the absence marker) by a dataset
Defines(data, k) == k \in DOMAIN data /\ data[k].t # "none"

\* the merge of dataset s over dataset t, on contents
RECURSIVE MergeV(_, _)
MergeV(t, s) ==
    [k \in DOMAIN t \cup {j \in DOMAIN s : s[j].t # "none"} |->
        IF ~Defines(s, k) THEN t[k]
        ELSE IF s[k].t # "d" THEN s[k]
        ELSE LET v1 == Get(t, k)
             IN  CASE v1.t = "a" -> [t |-> "p", keys |-> v1.keys, d |-> s[k].d]
                   [] v1.t = "p" ->
                        [t |-> "p", keys |-> v1.keys, d |-> MergeV(v1.d, s[k].d)]
                   [] v1.t = "d" -> Nested(MergeV(v1.d, s[k].d))
                   [] v1.t = "v" ->
                        [t |-> "v", d |-> MergeV(v1.d, s[k].d), base |-> v1.base]
                   [] OTHER -> Nested(MergeV(<<>>, s[k].d))]

\* the datasets a successful load of id can have produced: its own data, or
\* its own data merged over what a successful load of its parent produced
RECURSIVE Complete(_)
Complete(id) ==
    IF id \notin Stored THEN {}
    ELSE {store.data[id]}
         \cup (IF id = root THEN {}
               ELSE {MergeV(p, store.data[id]) : p \in Complete(ParentId(id))})

(***************************************************************************)
(* Claims about load.                                                      *)
(***************************************************************************)
\* C1: a load(name) that succeeds after an earlier successful load of the
\* same identifier returns the identical dict instance and opens no file.
C1_LoadIdempotent ==
    (op = "load" /\ arg_mi /\ err = "" /\ prev.t = "r")
        => (ret = prev /\ fetched = <<>>)

\* C2: a successful load(name) returns a dataset that holds every key
\* defined in a dataset of name's chain, with the value of the nearest
\* dataset of the chain defining it when that value is a scalar or an Alias,
\* whatever load calls were made before.
C2_Inheritance ==
    (op = "load" /\ arg_mi /\ err = "") =>
        \A id \in Asked(arg) :
            LET chain == Chain(id)
                result == Deep(heap, ret.ref)
            IN  \A i \in 1..Len(chain) : \A k \in {"a", "b", "c"} :
                    ( /\ chain[i] \in Stored
                      /\ Defines(store.data[chain[i]], k)
                      /\ \A j \in 1..(i - 1) :
                            chain[j] \in Stored => ~Defines(store.data[chain[j]], k) )
                    => /\ k \in DOMAIN result
                       /\ store.data[chain[i]][k].t \in {"s", "a"}
                             => result[k] = store.data[chain[i]][k]

\* C3: a load of an identifier for which the store lacks the dataset, or the
\* dataset of an ancestor, raises IOError.
C3_MissingRaisesIOError ==
    (op = "load" /\ arg_mi /\ (Asked(arg) = {} \/ \E id \in Asked(arg) : ChainMissing(id)))
        => err = "IOError"

Listed == Stored \ {root}

\* c is d in some upper-, lower- or mixed-case spelling
CaseVariant(c, d) ==
    /\ Len(c) = Len(d)
    /\ \A i \in 1..Len(d) : c[i] \in {d[i], UpperChar(d[i]), LowerChar(d[i])}

\* s is some spelling of id between surrounding spaces
Spells(s, id) ==
    \E i \in 1..(Len(s) + 1), j \in 0..Len(s) :
        /\ \A a \in 1..(i - 1) : s[a] = " "
        /\ \A b \in (j + 1)..Len(s) : s[b] = " "
        /\ CaseVariant(SubSeq(s, i, j), id)

\* name is in the cache or spells an identifier of the normalization table
Known(name) ==
    /\ name.t = "str"
    /\ name.s \in DOMAIN cache \/ \E id \in Listed : Spells(name.s, id)

ExistsNow(name) == exists(State, name).val

\* C9: exists answers false for None, '', a non-string and a name that is
\* neither in the cache nor in the normalization table; it answers true for
\* every identifier a load has returned the dataset of ('root' too); and
\* once exists(name) is true it is true in every later state.
C9_Exists ==
    [][/\ op' = "exists" =>
            /\ (arg'.t # "str" \/ arg'.s = <<>>) => ~ret'.b
            /\ ~Known(arg)' => ~ret'.b
       /\ \A id \in loaded' : ExistsNow(PyStr(id))'
       /\ State' # State =>
              \A name \in Names \cup NoNames : ExistsNow(name) => ExistsNow(name)']_vars

\* C9 witness: exists('root') answered true, 'root' not being listed
C9_Witness ==
    /\ op = "exists" /\ arg = PyStr(root) /\ ret.b
    /\ root \in loaded /\ root \notin Listed

\* C10: normalize_locale of any spelling (upper, lower or mixed case, between
\* spaces) of a listed identifier returns that identifier, and of an empty,
\* non-string or unknown name returns None.
C10_Normalize ==
    op = "normalize_locale" =>
        /\ \A id \in Listed :
               (arg.t = "str" /\ Spells(arg.s, id)) => ret = PyStr(id)
        /\ (arg.t # "str" \/ ~\E id \in Listed : Spells(arg.s, id)) => ret = NoneV

\* C10 witness: a padded spelling in another case was normalized
C10_Witness ==
    /\ op = "normalize_locale"
    /\ arg = PyStr(<<" ", "E", "n", "_", "u", "S", " ", " ">>)
    /\ ret = PyStr(en_US)

(***************************************************************************)
(* SpecNorm: normalize_locale, exists and locale_identifiers on their own, *)
(* over every spelling of the identifiers.                                 *)
(***************************************************************************)
Pads == {<<>>, <<" ">>, <<" ", " ">>}

\* a mixed-case spelling: upper case on the odd positions
Mixed(s) ==
    [i \in 1..Len(s) |-> IF i % 2 = 1 THEN UpperChar(s[i]) ELSE LowerChar(s[i])]

Spellings(id) ==
    {PyStr(l \o c \o r) : l \in Pads, r \in Pads,
                          c \in {id, Lower(id), Upper(id), Mixed(id)}}

NormInputs ==
    UNION {Spellings(id) : id \in {root, en, en_US, de}}
        \cup NoNames \cup {PyInt(0), PyStr(<<" ">>), PyStr(<<"e">>)}

NormStores ==
    { Store({Dat(root), Dat(en), Dat(en_US), Readme},
            (root :> RootData) @@ (en :> EnData) @@ (en_US :> EnUSData),
            NoExceptions),
      Store({Dat(root), Dat(de), Dat(en_US)},
            (root :> RootData) @@ (de :> EnData) @@ (en_US :> EnUSData),
            NoExceptions),
      Store({Dat(root)}, (root :> RootData), NoExceptions),
      Store({Readme}, <<>>, NoExceptions) }

InitNorm ==
    /\ store \in NormStores
    /\ cache = <<>>
    /\ heap = <<>>
    /\ locale_ids = Unbuilt
    /\ norm_map = UnbuiltMap
    /\ op = "init"
    /\ arg = NoneV
    /\ arg_mi = TRUE
    /\ ret = NoneV
    /\ err = ""
    /\ fetched = <<>>
    /\ returned = <<>>
    /\ prev = NoneV
    /\ loaded = {}
    /\ NoOthers

NextNorm ==
    \/ \E name \in NormInputs : Normalize(name)
    \/ \E name \in NormInputs : Exists(name)
    \/ ListIdentifiers

SpecNorm == InitNorm /\ [][NextNorm]_vars


(***************************************************************************)
(* SpecMerge: merge on its own.  A dataset is built, and each step merges  *)
(* another dataset into a copy of the last result, as load does with       *)
(* "data = self.load(parent).copy()" and "merge(data, pickle.load(...))".  *)
(***************************************************************************)
DocTarget == ("1" :> Scalar("foo")) @@ ("3" :> Scalar("baz"))
DocSource == ("1" :> Scalar("Foo")) @@ ("2" :> Scalar("Bar"))
DeepTarget ==
    ("a" :> NoneV)
    @@ ("b" :> Nested(("x" :> Nested(("y" :> Scalar("rxy")) @@ ("z" :> Scalar("rxz"))))
                      @@ ("y" :> Scalar("ry"))))
DeepSource ==
    ("a" :> Nested("x" :> Scalar("sx")))
    @@ ("b" :> Nested("x" :> Nested(("z" :> Scalar("sxz")) @@ ("y" :> NoneV))))
AliasSource == ("b" :> Alias(<<"a">>)) @@ ("c" :> Scalar("s"))

MergeTargets == {DocTarget, RootData, DeepTarget, EmptyData}
MergeSources ==
    {DocSource, EnData, EnNoneData, EnUSData, DeepSource, AliasSource, EmptyData}

NoStore == Store({}, <<>>, NoExceptions)

InitMerge ==
    /\ store = NoStore
    /\ cache = <<>>
    /\ locale_ids = Unbuilt
    /\ norm_map = UnbuiltMap
    /\ op = "init"
    /\ arg = NoneV
    /\ arg_mi = TRUE
    /\ ret = NoneV
    /\ err = ""
    /\ fetched = <<>>
    /\ returned = <<>>
    /\ prev = NoneV
    /\ loaded = {}
    /\ \E t \in MergeTargets :
           LET n == Unpickle(<<>>, t)
           IN  /\ heap = n.h
               /\ pre = n.h
               /\ dict1 = n.ref
    /\ dict2 = 0
    /\ base = 0
    /\ self = NoneV
    /\ key = ""
    /\ lock = Unlocked
    /\ threads = <<>>

\* data = <last result>.copy(); merge(data, <a new dataset>)
\* the state after merge(d1, d2), called on the heap h, answered m
Merged(h, d1, d2, m) ==
    /\ pre' = h
    /\ dict1' = d1
    /\ dict2' = d2
    /\ heap' = m.h
    /\ err' = m.err
    /\ op' = "merge"
    /\ UNCHANGED <<store, cache, locale_ids, norm_map, arg, arg_mi, ret, fetched,
                   returned, prev, loaded, base, self, key, lock, threads>>

Merge(source) ==
    /\ Len(heap) <= MaxHeap
    /\ Bind(DictCopy(heap, dict1), LAMBDA c :
       Bind(Unpickle(c.h, source), LAMBDA n :
            Merged(n.h, c.ref, n.ref, merge(n.h, Ref(c.ref), n.ref))))

NextMerge == \E source \in MergeSources : Merge(source)

SpecMerge == InitMerge /\ [][NextMerge]_vars

\* the dict instances reachable from dict r
RECURSIVE Reach(_, _)
Reach(h, r) ==
    {r} \cup UNION {Reach(h, h[r][k].ref) :
                       k \in {j \in DOMAIN h[r] : h[r][j].t \in {"r", "p", "v"}}}

\* C5: merge(dict1, dict2) leaves dict2 and every dict reachable from dict2
\* as they were, whether it returns or raises.
C5_SourceUnchanged ==
    op = "merge" =>
        /\ \A r \in Reach(pre, dict2) : heap[r] = pre[r]
        /\ Deep(heap, dict2) = Deep(pre, dict2)

\* C5 witness: dict2 held a nested dict where dict1 held an Alias or an
\* (alias, others) tuple, and dict1 was changed
C5_Witness ==
    /\ op = "merge" /\ err = ""
    /\ \E k \in DOMAIN pre[dict2] :
           /\ pre[dict2][k].t = "r"
           /\ k \in DOMAIN pre[dict1]
           /\ pre[dict1][k].t = "p"
    /\ heap[dict1] # pre[dict1]

\* C6: after merge(dict1, dict2) returns, dict1 holds, for every key of dict2
\* whose value is not None, dict2's value when it is a scalar or an Alias and
\* the recursive merge of dict2's nested dict over dict1's earlier value
\* otherwise; every other key of dict1 has the value it had.
C6_MergeResult ==
    (op = "merge" /\ err = "") =>
        LET t0 == Deep(pre, dict1)
            s == Deep(pre, dict2)
            t1 == Deep(heap, dict1)
        IN  /\ DOMAIN t1 = DOMAIN t0 \cup {k \in DOMAIN s : s[k].t # "none"}
            /\ \A k \in DOMAIN t1 :
                   IF ~Defines(s, k) THEN t1[k] = t0[k]
                   ELSE IF s[k].t \in {"s", "a"} THEN t1[k] = s[k]
                   ELSE t1[k] = MergeV(t0, s)[k]

\* C6 witness: the docstring's example, and a merge two levels deep
C6_Witness ==
    /\ op = "merge" /\ err = ""
    /\ \/ /\ Deep(pre, dict1) = DocTarget
          /\ Deep(pre, dict2) = DocSource
          /\ Deep(heap, dict1) =
                 ("1" :> Scalar("Foo")) @@ ("2" :> Scalar("Bar")) @@ ("3" :> Scalar("baz"))
       \/ /\ Deep(pre, dict1) = DeepTarget
          /\ Deep(pre, dict2) = DeepSource
          /\ Deep(heap, dict1)["b"].d["x"].d =
                 ("y" :> Scalar("rxy")) @@ ("z" :> Scalar("sxz"))

(***************************************************************************)
(* SpecView: datasets are loaded, then a LocaleDataDict is built over a    *)
(* cached dataset, and keys are read through it and through the nested     *)
(* LocaleDataDicts the reads have produced.                                *)
(***************************************************************************)
ViewRoot ==
    ("t" :> Nested(("x" :> Scalar("tx"))
                   @@ ("n" :> Nested(("u" :> Scalar("tu")) @@ ("w" :> Scalar("tw"))))))
    @@ ("a" :> Alias(<<"t">>))
    @@ ("s" :> Alias(<<"t", "x">>))
    @@ ("c" :> Alias(<<"a">>))
    @@ ("p" :> Alias(<<"t">>))
    @@ ("q" :> Alias(<<"p">>))
ViewEn ==
    "p" :> Nested(("x" :> Scalar("ex")) @@ ("z" :> Scalar("ez"))
                  @@ ("n" :> Nested("u" :> Scalar("eu"))))

ViewStore ==
    Store({Dat(root), Dat(en)}, (root :> ViewRoot) @@ (en :> ViewEn), NoExceptions)

ViewNames == {PyStr(root), PyStr(en)}
ViewKeys == {"t", "a", "s", "c", "p", "q", "n", "zz"}

InitView ==
    /\ store = ViewStore
    /\ cache = <<>>
    /\ heap = <<>>
    /\ locale_ids = Unbuilt
    /\ norm_map = UnbuiltMap
    /\ op = "init"
    /\ arg = NoneV
    /\ arg_mi = TRUE
    /\ ret = NoneV
    /\ err = ""
    /\ fetched = <<>>
    /\ returned = <<>>
    /\ prev = NoneV
    /\ loaded = {}
    /\ NoOthers

\* LocaleDataDict(load(id)): base is None, so base = data (one
\* LocaleDataDict is built in a behaviour)
Open(id) ==
    /\ base = 0
    /\ id \in DOMAIN cache
    /\ base' = cache[id]
    /\ self' = LocaleDataDict(cache[id], cache[id])
    /\ op' = "view"
    /\ UNCHANGED <<store, cache, heap, locale_ids, norm_map, arg, arg_mi, ret, err,
                   fetched, returned, prev, loaded, pre, dict1, dict2, key, lock,
                   threads>>

\* the values the dicts of the heap hold
HeapValues == UNION {{heap[r][k] : k \in DOMAIN heap[r]} : r \in 1..Len(heap)}

\* the LocaleDataDict built over base and the nested ones its reads produced
Views ==
    IF base = 0 THEN {}
    ELSE {LocaleDataDict(base, base)}
         \cup {v \in HeapValues : v.t = "v" /\ v.base = base}

\* the state after view[k] answered g
Got(view, k, g) ==
    /\ pre' = heap
    /\ self' = view
    /\ key' = k
    /\ heap' = g.h
    /\ ret' = g.val
    /\ err' = g.err
    /\ op' = "getitem"
    /\ UNCHANGED <<store, cache, locale_ids, norm_map, arg, arg_mi, fetched,
                   returned, prev, loaded, dict1, dict2, base, lock, threads>>

\* view[k], for one of the LocaleDataDicts
Read(k) == \E view \in Views : Got(view, k, getitem(heap, view, k))

\* load before the LocaleDataDict is built
LoadForView(name) ==
    /\ base = 0
    /\ Load(name, TRUE)

NextView ==
    \/ \E name \in ViewNames : LoadForView(name)
    \/ \E id \in {root, en} : Open(id)
    \/ \E k \in ViewKeys : Read(k)

SpecView == InitView /\ [][NextView]_vars

(***************************************************************************)
(* Claims about reading through a LocaleDataDict.                          *)
(***************************************************************************)
Missing == [t |-> "missing"]

\* the value the last __getitem__ found stored at its key
Orig == IF key \in DOMAIN pre[self.ref] THEN pre[self.ref][key] ELSE Missing

\* the value at the end of a path of keys that starts at the value v
RECURSIVE PathValue(_, _, _)
PathValue(h, v, keys) ==
    IF keys = <<>> THEN v
    ELSE IF v.t \in {"r", "v"} /\ Head(keys) \in DOMAIN h[v.ref]
    THEN PathValue(h, h[v.ref][Head(keys)], Tail(keys))
    ELSE Missing

\* the target of an alias in the dataset b: the value at the end of its path,
\* or the target of the Alias (alone or in a pair) found there
RECURSIVE Target(_, _, _)
Target(h, b, keys) ==
    IF PathValue(h, Ref(b), keys).t \in {"a", "p"}
    THEN Target(h, b, PathValue(h, Ref(b), keys).keys)
    ELSE PathValue(h, Ref(b), keys)

\* a dict is handed out as a LocaleDataDict over the same base
Wrap(v, b) == IF v.t = "r" THEN LocaleDataDict(v.ref, b) ELSE v

\* C7: reading through a view a key that holds an Alias returns the value at
\* the end of the alias's path in the view's base (the target of a further
\* alias found there); after the read the backing dict holds the returned
\* value at the key, it is no Alias, pair or bare dict, and reading the key
\* again returns the same value and changes nothing.
C7_AliasRead ==
    (op = "getitem" /\ Orig.t = "a") =>
        /\ Target(pre, self.base, Orig.keys) # Missing =>
               /\ err = ""
               /\ ret = Wrap(Target(pre, self.base, Orig.keys), self.base)
        /\ err = "" =>
               /\ heap[self.ref][key] = ret
               /\ ret.t \notin {"a", "p", "r"}
               /\ getitem(heap, self, key) = Ok(heap, ret)

\* C7 witness: an alias to an alias to a dict was read
C7_Witness ==
    /\ op = "getitem" /\ err = ""
    /\ Orig = Alias(<<"a">>)
    /\ PathValue(pre, Ref(self.base), <<"a">>) = Alias(<<"t">>)
    /\ ret.t = "v"
    /\ Deep(heap, ret.ref)["x"] = Scalar("tx")

\* the contents d as a reader sees them: a dict and a LocaleDataDict over
\* it are the same nested dataset
RECURSIVE Seen(_)
Seen(d) ==
    [k \in DOMAIN d |->
        CASE d[k].t \in {"d", "v"} -> Nested(Seen(d[k].d))
          [] d[k].t = "p" -> [t |-> "p", keys |-> d[k].keys, d |-> Seen(d[k].d)]
          [] OTHER -> d[k]]

\* the bases of the LocaleDataDicts held in the contents d
RECURSIVE Bases(_)
Bases(d) ==
    UNION {CASE d[k].t = "v" -> {d[k].base} \cup Bases(d[k].d)
             [] d[k].t \in {"d", "p"} -> Bases(d[k].d)
             [] OTHER -> {} : k \in DOMAIN d}

\* the last __getitem__ read an (alias, overlay) pair whose alias has a
\* dataset for target, and returned
PairRead ==
    /\ op = "getitem" /\ err = ""
    /\ Orig.t = "p"
    /\ Target(pre, self.base, Orig.keys).t \in {"r", "v"}

\* C8: reading through a view a key that holds an (alias, overlay) pair
\* returns a dataset that has, for a key the overlay defines with a scalar or
\* an Alias, the overlay's value, for a key the overlay defines with a nested
\* dataset, the merge of that dataset over the alias target's value, and for
\* every other key the alias target's value (a dict and a LocaleDataDict over
\* it counting as the same dataset); the alias target and the dicts
\* reachable from it are as they were.
C8_PartialAliasRead ==
    PairRead =>
        LET ov == Seen(Deep(pre, Orig.ref))
            target == Target(pre, self.base, Orig.keys).ref
            tg == Seen(Deep(pre, target))
            res == Seen(Deep(heap, ret.ref))
        IN  /\ ret.t = "v" /\ ret.base = self.base
            /\ Bases(Deep(heap, ret.ref)) \subseteq {self.base}
            /\ DOMAIN res = DOMAIN tg \cup {k \in DOMAIN ov : Defines(ov, k)}
            /\ \A k \in DOMAIN res :
                   IF ~Defines(ov, k) THEN res[k] = tg[k]
                   ELSE IF ov[k].t \in {"s", "a"} THEN res[k] = ov[k]
                   ELSE res[k] = MergeV(tg, ov)[k]
            /\ \A r \in Reach(pre, target) : heap[r] = pre[r]
            /\ ret.ref \notin Reach(pre, target)

\* C8 witness: the overlay defines a scalar and a nested dataset that the
\* alias target defines too, and a key the target lacks
C8_Witness ==
    /\ PairRead
    /\ Deep(pre, Orig.ref)["x"] = Scalar("ex")
    /\ Deep(pre, Target(pre, self.base, Orig.keys).ref)["x"] = Scalar("tx")
    /\ Deep(heap, ret.ref)["x"] = Scalar("ex")
    /\ Deep(heap, ret.ref)["z"] = Scalar("ez")
    /\ Seen(Deep(heap, ret.ref))["n"].d = ("u" :> Scalar("eu")) @@ ("w" :> Scalar("tw"))

\* C8 as stated: every key the overlay defines has the overlay's value in the
\* dataset returned, every other key the alias target's value
C8_OverlayValues ==
    PairRead =>
        LET ov == Seen(Deep(pre, Orig.ref))
            tg == Seen(Deep(pre, Target(pre, self.base, Orig.keys).ref))
            res == Seen(Deep(heap, ret.ref))
        IN  /\ DOMAIN res = DOMAIN tg \cup {k \in DOMAIN ov : Defines(ov, k)}
            /\ \A k \in DOMAIN res :
                   IF Defines(ov, k) THEN res[k] = ov[k] ELSE res[k] = tg[k]

(***************************************************************************)
(* Claims about load without inheritance.                                  *)
(***************************************************************************)
\* C11: a successful load(name, merge_inherited=False) returns exactly the
\* stored dataset of name, with no key of an ancestor, whatever load calls
\* were made before.
C11_OwnDataOnly ==
    (op = "load" /\ ~arg_mi /\ err = "") =>
        \A id \in Asked(arg) : Deep(heap, ret.ref) = store.data[id]

(***************************************************************************)
(* SpecThreads: threads call load, normalize_locale, exists and            *)
(* locale_identifiers on the one _LocaleData instance.  A thread is the    *)
(* stack of the calls it is in; a frame is a call with its position pc and *)
(* its locals.  A step is what a call does between two points where        *)
(* another thread can run and see or change what it reads: the two         *)
(* memoized fields are read and written without the lock, the cache and    *)
(* the dicts are written with the lock held.                               *)
(***************************************************************************)
\* the calls a thread makes in a behaviour
MaxCalls == 2

Threads == {1, 2}

\* os.listdir(_dirname) raises OSError: there is no such directory
UnreadableStore ==
    [dir |-> {}, data |-> <<>>, parent_exceptions |-> NoExceptions,
     unreadable |-> TRUE]
Unreadable(st) == "unreadable" \in DOMAIN st

ThreadStores ==
    { Store({Dat(root), Dat(en), Dat(de)},
            (root :> RootData) @@ (en :> EnData) @@ (de :> EnNoneData),
            NoExceptions),
      Store({Dat(root), Dat(en)},
            (root :> EmptyData) @@ (en :> EmptyData),
            NoExceptions),
      UnreadableStore }

\* a call: f(name, merge_inherited) at its first step
Frame(f, name, merge_inherited) ==
    [f |-> f, pc |-> "start", name |-> name, mi |-> merge_inherited,
     got |-> [val |-> NoneV, err |-> ""], data |-> NoneV, todo |-> {}]

ThreadCalls ==
    { Frame("load", PyStr(en), TRUE), Frame("load", PyStr(root), TRUE),
      Frame("normalize_locale", PyStr(de), TRUE),
      Frame("exists", PyStr(en), TRUE),
      Frame("locale_identifiers", NoneV, TRUE) }

InitThreads ==
    /\ store \in ThreadStores
    /\ cache = <<>>
    /\ heap = <<>>
    /\ locale_ids = Unbuilt
    /\ norm_map = UnbuiltMap
    /\ op = "init"
    /\ arg = NoneV
    /\ arg_mi = TRUE
    /\ ret = NoneV
    /\ err = ""
    /\ fetched = <<>>
    /\ returned = <<>>
    /\ prev = NoneV
    /\ loaded = {}
    /\ pre = <<>>
    /\ dict1 = 0
    /\ dict2 = 0
    /\ base = 0
    /\ self = NoneV
    /\ key = ""
    /\ lock = Unlocked
    /\ threads = [t \in Threads |-> [stack |-> <<>>, calls |-> 0, call |-> NoneV]]

\* the frame a thread is running
Top(t) == threads[t].stack[Len(threads[t].stack)]
Running(t, f, pc) ==
    /\ threads[t].stack # <<>>
    /\ Top(t).f = f
    /\ Top(t).pc = pc

\* the stack with its top frame replaced, and with a call pushed
WithTop(stack, fr) == [stack EXCEPT ![Len(stack)] = fr]
Calling(stack, pc, fr) == Append(WithTop(stack, [stack[Len(stack)] EXCEPT !.pc = pc]), fr)

\* what a step of a thread can leave alone
outcome == <<op, arg, arg_mi, ret, err, prev, returned, loaded>>
rest == <<store, pre, dict1, dict2, base, self, key>>

\* the stack after an exception left its top frame: the callers are left too,
\* down to one that called from inside its try block (a load waiting for its
\* parent), which gets the exception
RECURSIVE Unwound(_, _)
Unwound(stack, e) ==
    IF stack = <<>> THEN <<>>
    ELSE IF stack[Len(stack)].f = "load" /\ stack[Len(stack)].pc = "parent"
    THEN WithTop(stack, [stack[Len(stack)] EXCEPT !.got = [val |-> NoneV, err |-> e]])
    ELSE Unwound(SubSeq(stack, 1, Len(stack) - 1), e)

\* the stack after its top frame returned val (or, a load, raised e after its
\* finally block): the caller gets it
Popped(stack, val, e) ==
    IF Len(stack) = 1 THEN <<>>
    ELSE WithTop(SubSeq(stack, 1, Len(stack) - 1),
                 [stack[Len(stack) - 1] EXCEPT !.got = [val |-> val, err |-> e]])

\* thread t goes on with the stack st2; with st2 empty the call it made is
\* over: it returned val or raised e, id being the identifier a load was for
GoesOn(t, st2, val, e, id) ==
    /\ threads' = [threads EXCEPT ![t].stack = st2]
    /\ IF st2 # <<>> THEN UNCHANGED outcome
       ELSE /\ op' = threads[t].call.f
            /\ arg' = threads[t].call.name
            /\ arg_mi' = threads[t].call.mi
            /\ ret' = val
            /\ err' = e
            /\ prev' = IF id.t = "str" THEN Get(returned, id.s) ELSE NoneV
            /\ returned' = IF id.t = "str" /\ e = ""
                           THEN Put(returned, id.s, val) ELSE returned
            /\ loaded' = IF id.t = "str" /\ e = ""
                         THEN loaded \cup {id.s} ELSE loaded

\* thread t goes on in its top frame, now fr
Steps(t, fr) == GoesOn(t, WithTop(threads[t].stack, fr), NoneV, "", NoneV)

\* the top frame of thread t returns val
Returns(t, val) == GoesOn(t, Popped(threads[t].stack, val, ""), val, "", NoneV)

\* a thread that is in no call makes one
Call(t, c) ==
    /\ threads[t].stack = <<>>
    /\ threads[t].calls < MaxCalls
    /\ threads' = [threads EXCEPT ![t] =
                       [stack |-> <<c>>, calls |-> @.calls + 1, call |-> c]]
    /\ UNCHANGED <<cache, heap, locale_ids, norm_map, fetched, lock, outcome, rest>>

\* locale_identifiers: "if self._locale_identifiers is None"
IdsTest(t) ==
    /\ Running(t, "locale_identifiers", "start")
    /\ Steps(t, [Top(t) EXCEPT !.pc = IF locale_ids.built THEN "ret" ELSE "init"])
    /\ UNCHANGED <<cache, heap, locale_ids, norm_map, fetched, lock, rest>>

\* "self._locale_identifiers = set()" and os.listdir(_dirname)
IdsInit(t) ==
    /\ Running(t, "locale_identifiers", "init")
    /\ locale_ids' = Built({})
    /\ IF Unreadable(store)
       THEN GoesOn(t, Unwound(SubSeq(threads[t].stack, 1, Len(threads[t].stack) - 1),
                              "OSError"),
                   NoneV, "OSError", NoneV)
       ELSE Steps(t, [Top(t) EXCEPT !.pc = IF store.dir = {} THEN "ret" ELSE "add",
                                    !.todo = store.dir])
    /\ UNCHANGED <<cache, heap, norm_map, fetched, lock, rest>>

\* one round of "for filename in os.listdir(_dirname)", in any order
IdsAdd(t) ==
    /\ Running(t, "locale_identifiers", "add")
    /\ \E file \in Top(t).todo :
          /\ locale_ids' = IF file.ext = ".dat" /\ file.stem # root
                           THEN Built(locale_ids.v \cup {file.stem})
                           ELSE locale_ids
          /\ Steps(t, [Top(t) EXCEPT !.todo = @ \ {file},
                                     !.pc = IF Top(t).todo = {file} THEN "ret"
                                            ELSE "add"])
    /\ UNCHANGED <<cache, heap, norm_map, fetched, lock, rest>>

\* "return list(self._locale_identifiers)"
IdsReturn(t) ==
    /\ Running(t, "locale_identifiers", "ret")
    /\ Returns(t, [t |-> "list", v |-> locale_ids.v])
    /\ UNCHANGED <<cache, heap, locale_ids, norm_map, fetched, lock, rest>>

\* locale_identifiers_normalization_map: "if self._..._map is None", and the
\* call of self.locale_identifiers()
NmapTest(t) ==
    /\ Running(t, "locale_identifiers_normalization_map", "start")
    /\ IF norm_map.built THEN Steps(t, [Top(t) EXCEPT !.pc = "ret"])
       ELSE GoesOn(t, Calling(threads[t].stack, "set",
                              Frame("locale_identifiers", NoneV, TRUE)),
                   NoneV, "", NoneV)
    /\ UNCHANGED <<cache, heap, locale_ids, norm_map, fetched, lock, rest>>

\* "self._..._map = {s.lower(): s for s in <the list returned>}"
NmapSet(t) ==
    /\ Running(t, "locale_identifiers_normalization_map", "set")
    /\ norm_map' = Built([low \in {Lower(s) : s \in Top(t).got.val.v} |->
                             CHOOSE s \in Top(t).got.val.v : Lower(s) = low])
    /\ Steps(t, [Top(t) EXCEPT !.pc = "ret"])
    /\ UNCHANGED <<cache, heap, locale_ids, fetched, lock, rest>>

\* "return self._locale_identifiers_normalization_map"
NmapReturn(t) ==
    /\ Running(t, "locale_identifiers_normalization_map", "ret")
    /\ Returns(t, [t |-> "map", v |-> norm_map.v])
    /\ UNCHANGED <<cache, heap, locale_ids, norm_map, fetched, lock, rest>>

\* normalize_locale: the test of name, and the call of the map
NormalizeStart(t) ==
    /\ Running(t, "normalize_locale", "start")
    /\ IF Falsy(Top(t).name) \/ Top(t).name.t # "str" THEN Returns(t, NoneV)
       ELSE GoesOn(t, Calling(threads[t].stack, "get",
                              Frame("locale_identifiers_normalization_map", NoneV, TRUE)),
                   NoneV, "", NoneV)
    /\ UNCHANGED <<cache, heap, locale_ids, norm_map, fetched, lock, rest>>

\* "return <the map>.get(name.strip().lower())"
NormalizeGet(t) ==
    /\ Running(t, "normalize_locale", "get")
    /\ Returns(t, IF Lower(Strip(Top(t).name.s)) \in DOMAIN Top(t).got.val.v
                  THEN PyStr(Top(t).got.val.v[Lower(Strip(Top(t).name.s))])
                  ELSE NoneV)
    /\ UNCHANGED <<cache, heap, locale_ids, norm_map, fetched, lock, rest>>

\* exists: the tests of name and of the cache, and the call of normalize_locale
ExistsStart(t) ==
    /\ Running(t, "exists", "start")
    /\ IF Falsy(Top(t).name) \/ Top(t).name.t # "str"
       THEN Returns(t, [t |-> "bool", b |-> FALSE])
       ELSE IF InCache(State, Top(t).name)
       THEN Returns(t, [t |-> "bool", b |-> TRUE])
       ELSE GoesOn(t, Calling(threads[t].stack, "ret",
                              Frame("normalize_locale", Top(t).name, TRUE)),
                   NoneV, "", NoneV)
    /\ UNCHANGED <<cache, heap, locale_ids, norm_map, fetched, lock, rest>>

\* "return self.normalize_locale(name) is not None"
ExistsReturn(t) ==
    /\ Running(t, "exists", "ret")
    /\ Returns(t, [t |-> "bool", b |-> Top(t).got.val.t # "none"])
    /\ UNCHANGED <<cache, heap, locale_ids, norm_map, fetched, lock, rest>>

\* the object as a step of a thread finds it
ThreadState == [State EXCEPT !.fetched = fetched]

\* load: "self._cache_lock.acquire()", which waits while another thread owns
\* the lock, and the call of normalize_locale for a name other than 'root'
LoadAcquire(t) ==
    /\ Running(t, "load", "start")
    /\ lock.owner \in {0, t}
    /\ lock' = [owner |-> t, count |-> lock.count + 1]
    /\ IF Top(t).name = PyStr(root) THEN Steps(t, [Top(t) EXCEPT !.pc = "body"])
       ELSE GoesOn(t, Calling(threads[t].stack, "named",
                              Frame("normalize_locale", Top(t).name, TRUE)),
                   NoneV, "", NoneV)
    /\ UNCHANGED <<cache, heap, locale_ids, norm_map, fetched, rest>>

\* the try block of load has ended for the identifier name with the answer r
BodyDone(t, name, r) ==
    /\ cache' = r.st.cache
    /\ heap' = r.st.heap
    /\ fetched' = r.st.fetched
    /\ Steps(t, [Top(t) EXCEPT !.pc = "release", !.name = name,
                               !.got = [val |-> r.val, err |-> r.err]])

\* the try block of load up to the call of self.load(parent), parent being
\* what parent_of answered
CallsParent(t, name, parent) ==
    IF parent.err # ""
    THEN BodyDone(t, name, [st |-> ThreadState, val |-> NoneV, err |-> parent.err])
    ELSE /\ GoesOn(t, Calling(WithTop(threads[t].stack, [Top(t) EXCEPT !.name = name]),
                              "parent", Frame("load", parent.val, TRUE)),
                   NoneV, "", NoneV)
         /\ UNCHANGED <<cache, heap, fetched>>

\* the try block of load for the identifier name: the cache, then the file
\* (of 'root') or the call of self.load(parent)
Body(t, name) ==
    IF cache_hit(ThreadState, name)
    THEN BodyDone(t, name, [st |-> ThreadState, val |-> Ref(cache[name.s]), err |-> ""])
    ELSE IF name = PyStr(root) \/ ~Top(t).mi
    THEN BodyDone(t, name, load_file(ThreadState, name, Top(t).mi, NoneV))
    ELSE CallsParent(t, name, parent_of(ThreadState, name))

LoadBody(t) ==
    /\ \/ Running(t, "load", "named")
       \/ Running(t, "load", "body")
    /\ Body(t, IF Top(t).pc = "named" THEN Top(t).got.val ELSE Top(t).name)
    /\ UNCHANGED <<locale_ids, norm_map, lock, rest>>

\* "data = self.load(parent).copy()" once the parent is loaded, and the file
\* of name merged into it; c is the copy
Merges(t, c) == BodyDone(t, Top(t).name, load_file(c.st, Top(t).name, Top(t).mi, c.val))

LoadParent(t) ==
    /\ Running(t, "load", "parent")
    /\ IF Top(t).got.err # ""
       THEN BodyDone(t, Top(t).name,
                     [st |-> ThreadState, val |-> NoneV, err |-> Top(t).got.err])
       ELSE Merges(t, parent_copy([st |-> ThreadState, val |-> Top(t).got.val,
                                   err |-> ""]))
    /\ UNCHANGED <<locale_ids, norm_map, lock, rest>>

\* "finally: self._cache_lock.release()", and the return or the exception
LoadRelease(t) ==
    /\ Running(t, "load", "release")
    /\ lock' = IF lock.count = 1 THEN Unlocked ELSE [lock EXCEPT !.count = @ - 1]
    /\ GoesOn(t, Popped(threads[t].stack, Top(t).got.val, Top(t).got.err),
              Top(t).got.val, Top(t).got.err, Top(t).name)
    /\ UNCHANGED <<cache, heap, locale_ids, norm_map, fetched, rest>>

NextThreads ==
    \E t \in Threads :
        \/ \E c \in ThreadCalls : Call(t, c)
        \/ IdsTest(t)
        \/ IdsInit(t)
        \/ IdsAdd(t)
        \/ IdsReturn(t)
        \/ NmapTest(t)
        \/ NmapSet(t)
        \/ NmapReturn(t)
        \/ NormalizeStart(t)
        \/ NormalizeGet(t)
        \/ ExistsStart(t)
        \/ ExistsReturn(t)
        \/ LoadAcquire(t)
        \/ LoadBody(t)
        \/ LoadParent(t)
        \/ LoadRelease(t)

SpecThreads == InitThreads /\ [][NextThreads]_vars

(***************************************************************************)
(* Claims about threads.                                                   *)
(***************************************************************************)
\* the loads thread t is in that have acquired the lock
Holding(t) ==
    {i \in 1..Len(threads[t].stack) :
        threads[t].stack[i].f = "load" /\ threads[t].stack[i].pc # "start"}

\* a thread past the acquire of a load owns the lock: the part of load that
\* reads and fills the cache runs in one thread at a time
MissPathExclusive ==
    \A t \in Threads : Holding(t) # {} => lock.owner = t

\* no file is opened twice
FetchedOnce ==
    \A i \in 1..Len(fetched) : \A j \in 1..Len(fetched) :
        fetched[i] = fetched[j] => i = j

\* C12: under every interleaving of loads the part of load behind the lock
\* runs in one thread at a time, the dataset of an identifier is read from
\* its file once, and a load of an identifier that a load returned before, in
\* any thread, returns the identical instance.
C12_OncePerIdentifier ==
    /\ MissPathExclusive
    /\ FetchedOnce
    /\ (op = "load" /\ err = "" /\ prev.t = "r") => ret = prev


(***************************************************************************)
(* Claims about the dicts the cache entries share.                         *)
(***************************************************************************)
\* the dicts nested in the dict r, at any depth
NestedIn(h, r) == Reach(h, r) \ {r}

\* C13: no dict nested in one identifier's cached dataset is the same
\* instance as the cached dataset, or a dict nested in the cached dataset, of
\* another identifier.
C13_NoSharedNested ==
    \A a \in DOMAIN cache : \A b \in DOMAIN cache \ {a} :
        NestedIn(heap, cache[a]) \cap Reach(heap, cache[b]) = {}


(***************************************************************************)
(* Claims about what a LocaleDataDict returns after earlier reads.         *)
(***************************************************************************)
\* what reading every key path of the value v returns, each path read on the
\* heap as only the reads of its own prefix have left it: a scalar is
\* itself, a LocaleDataDict the values of its keys
RECURSIVE FullVal(_, _)
FullKey(g) ==
    IF g.err # "" THEN [t |-> "raises", e |-> g.err] ELSE FullVal(g.h, g.val)
FullVal(h, v) ==
    IF v.t = "v"
    THEN Nested([k \in DOMAIN h[v.ref] |-> FullKey(getitem(h, v, k))])
    ELSE v

\* the object before any call, over the directory st
NoCalls(st) ==
    [store |-> st, cache |-> <<>>, heap |-> <<>>, ids |-> Unbuilt,
     nmap |-> UnbuiltMap, fetched |-> <<>>]

\* LocaleDataDict(load(id)) read at every key path, with no call before
Fresh(st, id) ==
    Bind(load(NoCalls(st), PyStr(id), TRUE), LAMBDA r :
         FullVal(r.st.heap, LocaleDataDict(r.val.ref, r.val.ref)))

\* the identifiers whose cached dataset is the dict r
CachedAs(r) == {id \in DOMAIN cache : cache[id] = r}

\* C19: whatever keys were read before through the LocaleDataDict built over
\* a loaded dataset and through its nested LocaleDataDicts, every key path
\* read through it returns what it returns when it is read first.
C19_MemoTransparent ==
    base # 0 =>
        \A id \in CachedAs(base) :
            FullVal(heap, LocaleDataDict(base, base)) = Fresh(store, id)


(***************************************************************************)
(* SpecHistory: loads and reads in any order.  A LocaleDataDict is built   *)
(* over any cached dataset at any time, and keys are read through these    *)
(* and through the nested LocaleDataDicts earlier reads have produced.     *)
(* SpecMutable adds __setitem__ and copy().                                *)
(***************************************************************************)
HistRoot ==
    ("t" :> Nested(("x" :> Scalar("tx")) @@ ("r" :> Alias(<<"k">>))))
    @@ ("k" :> Scalar("rk"))
    @@ ("p" :> Alias(<<"t">>))
HistEn ==
    ("k" :> Scalar("ek")) @@ ("p" :> Nested("x" :> Scalar("ex")))

HistStore ==
    Store({Dat(root), Dat(en)}, (root :> HistRoot) @@ (en :> HistEn), NoExceptions)

HistKeys == {"t", "p", "r", "k"}

InitHistory ==
    /\ store = HistStore
    /\ cache = <<>>
    /\ heap = <<>>
    /\ locale_ids = Unbuilt
    /\ norm_map = UnbuiltMap
    /\ op = "init"
    /\ arg = NoneV
    /\ arg_mi = TRUE
    /\ ret = NoneV
    /\ err = ""
    /\ fetched = <<>>
    /\ returned = <<>>
    /\ prev = NoneV
    /\ loaded = {}
    /\ NoOthers

\* LocaleDataDict(load(id)) for the datasets loaded so far
TopViews == {LocaleDataDict(cache[id], cache[id]) : id \in DOMAIN cache}

\* these, the nested LocaleDataDicts stored by reads, and the one the last
\* call returned
AllViews ==
    TopViews \cup {v \in HeapValues : v.t = "v"}
             \cup (IF ret.t = "v" THEN {ret} ELSE {})

\* view[k], for any of the LocaleDataDicts
ReadAny(k) ==
    \E view \in AllViews :
        /\ Len(heap) <= MaxHeap
        /\ Got(view, k, getitem(heap, view, k))

LoadAny(name) ==
    /\ name \in ViewNames
    /\ Load(name, TRUE)

NextHistory ==
    \/ \E name \in ViewNames : LoadAny(name)
    \/ \E k \in HistKeys : ReadAny(k)

SpecHistory == InitHistory /\ [][NextHistory]_vars

\* the state after a call on the LocaleDataDict view that left the heap h
\* and returned val
Called(name, view, k, h, val) ==
    /\ op' = name
    /\ pre' = heap
    /\ self' = view
    /\ key' = k
    /\ heap' = h
    /\ ret' = val
    /\ err' = ""
    /\ UNCHANGED <<store, cache, locale_ids, norm_map, arg, arg_mi, fetched,
                   returned, prev, loaded, dict1, dict2, base, lock, threads>>

\* view[k] = value (LocaleDataDict.__setitem__)
SetItem(k, value) ==
    \E view \in AllViews :
        Called("setitem", view, k, setitem(heap, view, k, value), NoneV)

\* view.copy() (LocaleDataDict.copy), while the heap is small
MaxCopyHeap == 5

Copy ==
    \E view \in AllViews :
        /\ Len(heap) < MaxCopyHeap
        /\ Bind(mapping_copy(heap, view), LAMBDA c :
                Called("copy", view, "", c.h, c.val))

MutableRoot ==
    ("t" :> Nested("r" :> Alias(<<"k">>))) @@ ("k" :> Scalar("rk"))
MutableEn == "k" :> Scalar("ek")

MutableStore ==
    Store({Dat(root), Dat(en)}, (root :> MutableRoot) @@ (en :> MutableEn),
          NoExceptions)

InitMutable ==
    /\ store = MutableStore
    /\ cache = <<>>
    /\ heap = <<>>
    /\ locale_ids = Unbuilt
    /\ norm_map = UnbuiltMap
    /\ op = "init"
    /\ arg = NoneV
    /\ arg_mi = TRUE
    /\ ret = NoneV
    /\ err = ""
    /\ fetched = <<>>
    /\ returned = <<>>
    /\ prev = NoneV
    /\ loaded = {}
    /\ NoOthers

MutableKeys == {"t", "r"}
WrittenKeys == {"r"}
WrittenValues == {Scalar("w")}

NextMutable ==
    \/ \E name \in ViewNames : LoadAny(name)
    \/ \E k \in MutableKeys : ReadAny(k)
    \/ \E k \in WrittenKeys, value \in WrittenValues : SetItem(k, value)
    \/ Copy

SpecMutable == InitMutable /\ [][NextMutable]_vars


(***************************************************************************)
(* Claims about the base of nested LocaleDataDicts.                        *)
(***************************************************************************)
\* C15: a LocaleDataDict returned by reading a key through a LocaleDataDict
\* has the base of the one it was read from, and copy() returns a
\* LocaleDataDict with the same base over a new dict with the same items.
C15_SameBase ==
    /\ (op = "getitem" /\ err = "" /\ ret.t = "v") => ret.base = self.base
    /\ op = "copy" =>
           /\ ret.t = "v" /\ ret.base = self.base
           /\ ret.ref > Len(pre)
           /\ heap[ret.ref] = pre[self.ref]


(***************************************************************************)
(* Claims about the history of other locales.                              *)
(***************************************************************************)
\* C20: whatever loads and reads were made before, on this and on other
\* identifiers, every key path read through a LocaleDataDict built over a
\* cached dataset returns what it returns on the dataset loaded and read
\* with no call before, which the stored datasets of the identifier's chain
\* determine.
C20_ChainOnly ==
    \A id \in DOMAIN cache :
        FullVal(heap, LocaleDataDict(cache[id], cache[id])) = Fresh(store, id)


(***************************************************************************)
(* Claims about changes to cached datasets.                                *)
(***************************************************************************)
\* what the key k of the dict r holds once resolved in the dataset of the
\* identifier id, which r is part of
ResolvedIn(h, id, r, k) == FullKey(getitem(h, LocaleDataDict(r, cache[id]), k))

\* the step leaves the cached dataset of id as it was, but for keys that
\* held an Alias, a tuple or a dict and now hold their resolved value
OnlyResolved(id) ==
    \A r \in Reach(heap, cache[id]) :
        /\ DOMAIN heap'[r] = DOMAIN heap[r]
        /\ \A k \in DOMAIN heap[r] :
               heap'[r][k] # heap[r][k] =>
                   /\ op' = "getitem"
                   /\ heap[r][k].t \in {"a", "p", "r"}
                   /\ FullVal(heap', heap'[r][k]) = ResolvedIn(heap, id, r, k)

\* C14: a load changes no dict of a dataset that is in the cache, and a
\* read through a LocaleDataDict changes a cached dataset only by replacing
\* the Alias, tuple or dict a key holds by that key's resolved value in the
\* dataset.
C14_OnlyMemoized ==
    [][\A id \in DOMAIN cache : OnlyResolved(id)]_vars


(***************************************************************************)
(* SpecRace: two threads read the same key through the same               *)
(* LocaleDataDict.  A read is three steps: "orig = val = self._data[key]", *)
(* the resolution of val, and the write back with the return.  The         *)
(* datasets were loaded before, a LocaleDataDict was built over one of     *)
(* them and one key may have been read through it.                         *)
(***************************************************************************)
Reader == [pc |-> "start", orig |-> NoneV, val |-> NoneV, ret |-> NoneV, err |-> ""]

\* the heap after view[k] was read ("" for no read)
AfterRead(h, view, k) == IF k = "" THEN h ELSE getitem(h, view, k).h

\* the LocaleDataDict built over the dataset b and the nested ones stored in
\* the heap h
ViewsOver(h, b) ==
    {LocaleDataDict(b, b)}
    \cup {v \in UNION {{h[r][k] : k \in DOMAIN h[r]} : r \in 1..Len(h)} :
              v.t = "v" /\ v.base = b}

\* the state when both reads start: st is the loader after load('en'), id
\* the identifier the LocaleDataDict is built over, k0 the key read before
Racing(st, id, k0) ==
    /\ cache = st.cache
    /\ locale_ids = st.ids
    /\ norm_map = st.nmap
    /\ fetched = st.fetched
    /\ base = st.cache[id]
    /\ heap = AfterRead(st.heap, LocaleDataDict(st.cache[id], st.cache[id]), k0)
    /\ pre = heap
    /\ self \in ViewsOver(heap, base)
    /\ key \in ViewKeys

InitRace ==
    /\ store = ViewStore
    /\ \E id \in {root, en}, k0 \in ViewKeys \cup {""} :
           Racing(load(NoCalls(ViewStore), PyStr(en), TRUE).st, id, k0)
    /\ threads = [t \in Threads |-> Reader]
    /\ op = "view"
    /\ arg = NoneV
    /\ arg_mi = TRUE
    /\ ret = NoneV
    /\ err = ""
    /\ returned = <<>>
    /\ prev = NoneV
    /\ loaded = {en}
    /\ lock = Unlocked
    /\ dict1 = 0
    /\ dict2 = 0

\* what a step of a read leaves alone
readers == <<store, cache, locale_ids, norm_map, arg, arg_mi, fetched, returned,
             prev, loaded, pre, dict1, dict2, base, self, key, lock>>

\* the read of thread t ends: it returns val or raises e
Ends(t, val, e) ==
    /\ threads' = [threads EXCEPT ![t].pc = "done", ![t].ret = val, ![t].err = e]
    /\ op' = "getitem"
    /\ ret' = val
    /\ err' = e

\* orig = val = self._data[key]
ReadRaw(t) ==
    /\ threads[t].pc = "start"
    /\ IF key \in DOMAIN heap[self.ref]
       THEN /\ threads' = [threads EXCEPT ![t].pc = "raw",
                                          ![t].orig = heap[self.ref][key]]
            /\ UNCHANGED <<op, ret, err>>
       ELSE Ends(t, NoneV, "KeyError")
    /\ UNCHANGED <<heap, readers>>

\* the state after the resolution in thread t answered s
Resolved(t, s) ==
    /\ heap' = s.h
    /\ IF s.err = ""
       THEN /\ threads' = [threads EXCEPT ![t].pc = "resolved", ![t].val = s.val]
            /\ UNCHANGED <<op, ret, err>>
       ELSE Ends(t, NoneV, s.err)
    /\ UNCHANGED readers

\* "if isinstance(val, Alias)" and "if isinstance(val, tuple)"
Resolve(t) ==
    /\ threads[t].pc = "raw"
    /\ Resolved(t, getitem_tuple(getitem_alias(heap, threads[t].orig, self.base),
                                 self.base))

\* the state after the write back in thread t answered g
Written(t, g) ==
    /\ heap' = g.h
    /\ Ends(t, g.val, g.err)
    /\ UNCHANGED readers

\* "if type(val) is dict", "if val is not orig: self._data[key] = val" and
\* "return val"
WriteBack(t) ==
    /\ threads[t].pc = "resolved"
    /\ Written(t, getitem_store(self, key, threads[t].orig,
                                Ok(heap, threads[t].val)))

NextRace ==
    \E t \in Threads :
        \/ ReadRaw(t)
        \/ Resolve(t)
        \/ WriteBack(t)

SpecRace == InitRace /\ [][NextRace]_vars


(***************************************************************************)
(* Claims about two threads reading one key.                               *)
(***************************************************************************)
\* the read made alone, from the state both reads started in
Sequential == getitem(pre, self, key)

BothDone == \A t \in Threads : threads[t].pc = "done"

\* C16: when two threads have read the same key through the same
\* LocaleDataDict, in any interleaving of their steps, each has raised what
\* the read made alone raises or returned a value that reads, at every key
\* path, as the value the read made alone returns; the backing dict holds at
\* the key the value the read that returned last returned, which is no
\* Alias, tuple or bare dict, and its other keys hold what they held.
C16_BenignRace ==
    BothDone =>
        /\ \A t \in Threads : threads[t].err = Sequential.err
        /\ Sequential.err = "" =>
               /\ \A t \in Threads :
                      FullVal(heap, threads[t].ret)
                          = FullVal(Sequential.h, Sequential.val)
               /\ heap[self.ref][key] = ret
               /\ ret.t \notin {"a", "p", "r"}
               /\ DOMAIN heap[self.ref] = DOMAIN pre[self.ref]
               /\ \A k \in DOMAIN pre[self.ref] \ {key} :
                      heap[self.ref][k] = pre[self.ref][k]

\* C16 witness: both threads read the (alias, overlay) tuple before either
\* wrote, each made its own merged copy, and the dict holds the last one
C16_Witness ==
    /\ BothDone
    /\ key \in DOMAIN pre[self.ref]
    /\ pre[self.ref][key].t = "p"
    /\ \A t \in Threads : threads[t].orig.t = "p" /\ threads[t].err = ""
    /\ threads[1].ret # threads[2].ret
    /\ heap[self.ref][key] = ret


(***************************************************************************)
(* Claims about the lock.                                                  *)
(***************************************************************************)
\* the number of times thread t holds the lock
HoldCount(t) == IF lock.owner = t THEN lock.count ELSE 0

\* C17: a thread holds the cache lock once for each load it is in and has
\* acquired the lock for, and so not at all when it is in no load: every
\* load that returned or raised has released what it acquired.
C17_LockReleased ==
    \A t \in Threads : HoldCount(t) = Cardinality(Holding(t))


(***************************************************************************)
(* Claims about the normalization table under threads.                     *)
(***************************************************************************)
\* C18: in every interleaving of the calls of two threads, the memoized
\* normalization table maps the lower-cased form of every identifier of the
\* directory to the identifier, and normalize_locale of a spelling of such an
\* identifier has not returned None.
C18_TableComplete ==
    /\ norm_map.built =>
           \A id \in Listed :
               /\ Lower(id) \in DOMAIN norm_map.v
               /\ norm_map.v[Lower(id)] = id
    /\ (op = "normalize_locale" /\ err = "" /\ arg.t = "str") =>
           \A id \in Listed : Spells(arg.s, id) => ret = PyStr(id)

=============================================================================
